---- MODULE Spec2Model ----
(***************************************************************************)
(* Model of the Google Photos Picker client of gp_picker_api/api_helper.py *)
(* (the module main.py runs): the session workflow                          *)
(* run_complete_picking_workflow and the methods it calls,                  *)
(* create_picking_session, poll_session_until_complete,                     *)
(* get_session_status, get_selected_media_items, download_media_item and    *)
(* delete_session.                                                          *)
(*                                                                          *)
(* A Python dict is a TLA+ function whose domain is the set of its keys;    *)
(* {} is the function with the empty domain.  Time is in seconds.           *)
(***************************************************************************)
EXTENDS Integers, Sequences, FiniteSets, TLC

\* ---------------------------------------------------------------- bounds
\* poll_session_until_complete is called directly with
\* timeout_minutes in 0..MaxTimeoutMinutes
MaxTimeoutMinutes == 1
\* ... and with poll_interval a multiple (1..MaxIntervalSteps) of the default
MaxIntervalSteps == 3
\* a status request takes 0..MaxLatencySteps times LatencyStep seconds
LatencyStep == 5
MaxLatencySteps == 2
\* the service answers "complete" or fails from the MaxEventAt-th status
\* request at the latest, or never
MaxEventAt == 5
\* pages and items per page the listing service returns
MaxPages == 3
MaxPageItems == 2
\* the same, for a listing made inside the workflow
WfMaxPages == 2
WfMaxPageItems == 1
\* status requests one poll makes (more than any poll below needs)
MaxStatusCalls == 64
\* items of a listing whose download loop is entered directly
MaxLoopItems == 2
\* direct calls of download_media_item in a row
MaxCalls == 3
\* tags a group of an input metadata container holds
MaxTagsPerGroup == 2
\* times _update_metadata is applied to one file
MaxRepairs == 2

\* ------------------------------------------------------- program constants
DefaultPollInterval == 10
DefaultTimeoutMinutes == 10
PageSize == 100

\* ------------------------------------------------------------ Python dicts
None == "None"
EmptyDict == <<>>
\* `not d` for a dict d
IsEmptyDict(d) == DOMAIN d = {}
\* d.get(k, default)
Get(d, k, default) == IF k \in DOMAIN d THEN d[k] ELSE default
\* a test that takes the empty string for a value
Falsy_none(s) == s = None

\* `not s` for a string-or-None s
Falsy(s) == s = None \/ s = ""
\* `del d[k]` for every key of K that d holds
DictDel(d, K) == [k \in DOMAIN d \ K |-> d[k]]
\* `d[k] = v`
DictSet(d, k, v) == [x \in DOMAIN d \cup {k} |-> IF x = k THEN v ELSE d[x]]

\* --------------------------------------------------------- service answers
SessionIds == {"s1", "s2"}
PickerUri == "https://photos.google.com/picker"

\* bodies of a 2xx answer to POST /sessions
CreateBodies ==
    {[id |-> "s1", pickerUri |-> PickerUri],
     [pickerUri |-> PickerUri],
     EmptyDict}

\* bodies of a 2xx answer to GET /sessions/{id}, by completion
IncompleteBodies ==
    {[id |-> s, mediaItemsSet |-> FALSE] : s \in SessionIds}
        \cup {[id |-> s] : s \in SessionIds}
CompleteBodies == {[id |-> s, mediaItemsSet |-> TRUE] : s \in SessionIds}

Tokens == {"t1", "t2"}

\* media items the listing can return
ItemA == [id |-> "a", mediaFile |-> [baseUrl |-> "https://lh3/a", filename |-> "a.jpg"]]
ItemB == [id |-> "b", mediaFile |-> [filename |-> "b.jpg"]]
ItemC == [id |-> "c"]
MediaItems == {ItemA, ItemB, ItemC}
\* an item declaring the filename of ItemA, and two declaring none
ItemD == [id |-> "d", mediaFile |-> [baseUrl |-> "https://lh3/d", filename |-> "a.jpg"]]
ItemE == [id |-> "e", mediaFile |-> [baseUrl |-> "https://lh3/e"]]
ItemF == [id |-> "f", mediaFile |-> [baseUrl |-> "https://lh3/f"]]
\* an item declaring the filename of ItemA, without a base URL
ItemG == [id |-> "g", mediaFile |-> [filename |-> "a.jpg"]]
\* items whose declared filename is not a plain name
ItemUp == [id |-> "u", mediaFile |-> [baseUrl |-> "https://lh3/u", filename |-> "../evil.jpg"]]
ItemAbs == [id |-> "r", mediaFile |-> [baseUrl |-> "https://lh3/r", filename |-> "/tmp/evil.jpg"]]
\* the items the download loop is entered with directly, and those
\* download_media_item is called with directly
LoopItems == {ItemA, ItemD, ItemE, ItemF, ItemG}
DownloadItems == MediaItems \cup {ItemUp, ItemAbs}

SeqsUpTo(S, n) == UNION {[1..m -> S] : m \in 0..n}

VARIABLES
    entry,               \* the method called: "workflow", "poll" or "list"
    pc,                  \* position in the running method
    \* run_complete_picking_workflow
    session_data, session_id, final_session_data, media_items,
    downloaded_items, idx, result, exception,
    \* poll_session_until_complete
    poll_session_id, poll_interval, timeout_seconds, elapsed,
    poll_session_data, poll_result,
    \* get_selected_media_items
    list_session_id, all_media_items, page_token, list_result,
    \* the service, as seen by one poll: the first status request that is
    \* answered "complete" or fails (0: every answer is "incomplete"), and
    \* the duration of a status request
    event_at, event_kind, call_latency,
    \* history of the requests made and of the answers received
    status_calls, status_sids, last_response,
    list_reqs, pages, list_failed,
    download_reqs, delete_reqs,
    \* one record per call of download_media_item: the item, whether its
    \* bytes were written, what _update_metadata returned, whether the call
    \* raised, and the value it returned
    download_log,
    \* the file system: for each path that was opened for writing, what the
    \* file holds; and the writes in the order they were made
    files, file_writes,
    \* the value each delete_session call returned
    delete_results,
    \* the downloaded file that _update_metadata repairs: its embedded
    \* metadata container and its filesystem timestamps
    file_exif, file_mtime, file_atime,
    \* the item's 'createTime' and the UTC offset of the local timezone
    item_create_time, local_offset,
    \* update_exif_metadata: its text arguments and the dict it returns
    copyright_text, artist_text, exif_dict,
    \* _update_metadata: its local creation_date, the number of calls made,
    \* the value the last call returned and the container each successful
    \* call left in the file
    creation_date, repair_runs, repair_ok, exif_history

wfVars == <<session_data, session_id, final_session_data, media_items,
            downloaded_items, idx, result, exception>>
pollVars == <<poll_session_id, poll_interval, timeout_seconds, elapsed,
              poll_session_data, poll_result>>
listVars == <<list_session_id, all_media_items, page_token, list_result>>
serviceVars == <<event_at, event_kind, call_latency>>
statusHist == <<status_calls, status_sids, last_response>>
listHist == <<list_reqs, pages, list_failed>>
dlHist == <<download_reqs, download_log, files, file_writes>>
deleteHist == <<delete_reqs, delete_results>>
repairVars == <<file_exif, file_mtime, file_atime, item_create_time,
                local_offset, copyright_text, artist_text, exif_dict,
                creation_date, repair_runs, repair_ok, exif_history>>
vars == <<entry, pc, wfVars, pollVars, listVars, serviceVars, statusHist,
          listHist, dlHist, deleteHist, repairVars>>

\* ------------------------------------------------------------------- Init
Latencies == {LatencyStep * j : j \in 0..MaxLatencySteps}
PollIntervals == {DefaultPollInterval * j : j \in 1..MaxIntervalSteps}

WfIdle ==
    /\ session_data = EmptyDict /\ session_id = None
    /\ final_session_data = EmptyDict /\ media_items = <<>>
    /\ downloaded_items = <<>> /\ idx = 0 /\ result = <<>>
    /\ exception = None

PollIdle ==
    /\ poll_session_id = None /\ poll_interval = 0 /\ timeout_seconds = 0
    /\ elapsed = 0 /\ poll_session_data = EmptyDict
    /\ poll_result = EmptyDict

ListIdle ==
    /\ list_session_id = None /\ all_media_items = <<>>
    /\ page_token = None /\ list_result = <<>>

NoHistory ==
    /\ status_calls = 0 /\ status_sids = {} /\ last_response = EmptyDict
    /\ list_reqs = <<>> /\ pages = <<>> /\ list_failed = FALSE
    /\ download_reqs = <<>> /\ delete_reqs = <<>>
    /\ download_log = <<>>
    /\ files = EmptyDict /\ file_writes = <<>> /\ delete_results = <<>>

\* an item without 'createTime'
NoCreateTime == [kind |-> "absent", wall |-> 0, tz |-> "Z"]

\* no file is being repaired
RepairIdle ==
    /\ file_exif = EmptyDict /\ file_mtime = 0 /\ file_atime = 0
    /\ item_create_time = NoCreateTime /\ local_offset = 0
    /\ copyright_text = <<>> /\ artist_text = <<>>
    /\ exif_dict = EmptyDict /\ creation_date = <<>>
    /\ repair_runs = 0 /\ repair_ok = FALSE /\ exif_history = <<>>

ServiceInit ==
    /\ event_at \in 0..MaxEventAt
    /\ event_kind \in IF event_at = 0 THEN {"complete"}
                      ELSE {"complete", "failed"}
    /\ call_latency \in Latencies

\* main.py: a fresh client runs the workflow
Init ==
    /\ entry = "workflow" /\ pc = "create"
    /\ WfIdle /\ PollIdle /\ ListIdle /\ NoHistory /\ ServiceInit
    /\ RepairIdle

\* ------------------------------------------------- create_picking_session
\* the dict the method returns: the body of a 2xx answer, {} on any failure
create_picking_session(ok, body) == IF ok THEN body ELSE EmptyDict

\* ------------------------------------------------------ get_session_status
\* the kind of the answer to the n-th status request of a poll
StatusKind(n) ==
    IF event_at # 0 /\ n >= event_at THEN event_kind ELSE "incomplete"

\* the dicts the method can return for the n-th request
get_session_status(n) ==
    CASE StatusKind(n) = "failed" -> {EmptyDict}
      [] StatusKind(n) = "complete" -> CompleteBodies
      [] OTHER -> IncompleteBodies

\* ------------------------------------------- poll_session_until_complete
\* entering the method
PollEnter(sid, interval, minutes) ==
    /\ poll_session_id' = sid
    /\ poll_interval' = interval
    /\ timeout_seconds' = minutes * 60
    /\ elapsed' = 0
    /\ poll_session_data' = EmptyDict
    /\ poll_result' = EmptyDict

\* the timeout test with >= for >
PollTimedOut_ge(e, timeout) == e >= timeout

\* `time.time() - start_time > timeout_seconds`
PollTimedOut(e, timeout) == e > timeout

\* a timeout that returns the last descriptor received
PollTimeoutResult_last(sd) == sd

\* what the method returns on a timeout
PollTimeoutResult(sd) == EmptyDict

\* a status test that only catches None
StatusFailed_none(sd) == FALSE

\* `not session_data` after a status request
StatusFailed(sd) == IsEmptyDict(sd)

\* `media_items_set` is true
SelectionComplete(sd) == Get(sd, "mediaItemsSet", FALSE) = TRUE

PollCheck ==
    /\ pc = "poll_check"
    /\ IF PollTimedOut(elapsed, timeout_seconds)
       THEN /\ poll_result' = PollTimeoutResult(poll_session_data)
            /\ pc' = "poll_returned"
       ELSE /\ pc' = "poll_status"
            /\ UNCHANGED poll_result
    /\ UNCHANGED <<repairVars, entry, wfVars, poll_session_id, poll_interval,
                   timeout_seconds, elapsed, poll_session_data, listVars,
                   serviceVars, statusHist, listHist, dlHist,
                   deleteHist>>

PollStatus ==
    /\ pc = "poll_status"
    /\ status_calls < MaxStatusCalls
    /\ \E sd \in get_session_status(status_calls + 1) :
        /\ status_calls' = status_calls + 1
        /\ status_sids' = status_sids \cup {poll_session_id}
        /\ last_response' = sd
        /\ elapsed' = elapsed + call_latency
        /\ poll_session_data' = sd
        /\ IF StatusFailed(sd)
           THEN /\ poll_result' = EmptyDict
                /\ pc' = "poll_returned"
           ELSE IF SelectionComplete(sd)
           THEN /\ poll_result' = sd
                /\ pc' = "poll_returned"
           ELSE /\ pc' = "poll_sleep"
                /\ UNCHANGED poll_result
    /\ UNCHANGED <<repairVars, entry, wfVars, poll_session_id, poll_interval,
                   timeout_seconds, listVars, serviceVars, listHist,
                   dlHist, deleteHist>>

\* a wait during which the clock stands still
after_sleep_frozen(e, interval) == e

\* the clock after `time.sleep(poll_interval)`
after_sleep(e, interval) == e + interval

PollSleep ==
    /\ pc = "poll_sleep"
    /\ elapsed' = after_sleep(elapsed, poll_interval)
    /\ pc' = "poll_check"
    /\ UNCHANGED <<repairVars, entry, wfVars, poll_session_id, poll_interval,
                   timeout_seconds, poll_session_data, poll_result, listVars,
                   serviceVars, statusHist, listHist, dlHist,
                   deleteHist>>

\* ---------------------------------------------- get_selected_media_items
ListEnter(sid) ==
    /\ list_session_id' = sid
    /\ all_media_items' = <<>>
    /\ page_token' = None
    /\ list_result' = <<>>

\* request parameters that never carry the continuation token
request_params_first(sid, token) ==
    [sessionId |-> sid, pageSize |-> PageSize]

\* the keyword arguments of one mediaItems().list call
request_params(sid, token) ==
    IF Falsy(token)
    THEN [sessionId |-> sid, pageSize |-> PageSize]
    ELSE [sessionId |-> sid, pageSize |-> PageSize, pageToken |-> token]

\* the page replaces the accumulated items
extend_assign(all, items) == items

\* all_media_items.extend(media_items)
extend(all, items) == all \o items

\* an error path that returns the pages accumulated so far
ListErrorResult_partial(all) == all

\* what the method returns when a request raised
ListErrorResult(all) == <<>>

PageLimit == IF entry = "workflow" THEN WfMaxPages ELSE MaxPages
PageItemLimit == IF entry = "workflow" THEN WfMaxPageItems ELSE MaxPageItems

\* the items the service lists: two distinct ones tell the order of a
\* listing made on its own
ListedItems == IF entry = "list" THEN {ItemA, ItemB} ELSE MediaItems

\* the continuation tokens the service hands out
ListTokens == IF entry = "workflow" THEN {"t1"} ELSE Tokens

\* the answers the service can give to the next list request; it stops
\* handing out continuation tokens at the PageLimit-th page
ListResponses ==
    LET its == SeqsUpTo(ListedItems, PageItemLimit)
        toks == IF Len(pages) + 1 < PageLimit THEN ListTokens \cup {""}
                ELSE {""}
    IN  {[mediaItems |-> i, nextPageToken |-> t] : i \in its, t \in toks}
            \cup {[mediaItems |-> i] : i \in its}
            \cup {EmptyDict}

ListPage ==
    /\ pc = "list_page"
    /\ list_reqs' = Append(list_reqs, request_params(list_session_id, page_token))
    /\ \/ \* the request raises
          /\ list_failed' = TRUE
          /\ list_result' = ListErrorResult(all_media_items)
          /\ pc' = "list_returned"
          /\ UNCHANGED <<all_media_items, page_token, pages>>
       \/ \E response \in ListResponses :
            LET items == Get(response, "mediaItems", <<>>)
                token == Get(response, "nextPageToken", None)
            IN  /\ pages' = Append(pages, response)
                /\ all_media_items' = extend(all_media_items, items)
                /\ page_token' = token
                /\ IF Falsy(token)
                   THEN /\ list_result' = all_media_items'
                        /\ pc' = "list_returned"
                   ELSE /\ pc' = "list_page"
                        /\ UNCHANGED list_result
                /\ UNCHANGED list_failed
    /\ UNCHANGED <<repairVars, entry, wfVars, pollVars, list_session_id, serviceVars,
                   statusHist, dlHist, deleteHist>>

\* ---------------------------------------------------------- delete_session
\* the request log after delete_session(sid); its result is not used
delete_session(log, sid) == Append(log, sid)

\* ------------------------------------------- run_complete_picking_workflow
\* a creation test that only catches None
CreateFailed_none(sd) == FALSE

\* `if not session_data` after create_picking_session
CreateFailed(sd) == IsEmptyDict(sd)

\* a poll test that only catches None
PollFailed_none(sd) == FALSE

\* `if not final_session_data` after the poll
PollFailed(sd) == IsEmptyDict(sd)

\* Step 1 and 2: create the session, show the URI, call the poll
WfCreate ==
    /\ entry = "workflow" /\ pc = "create"
    /\ \E ok \in BOOLEAN, body \in CreateBodies :
        /\ session_data' = create_picking_session(ok, body)
        /\ IF CreateFailed(session_data')
           THEN /\ result' = <<>>
                /\ pc' = "done"
                /\ UNCHANGED <<session_id, pollVars>>
           ELSE /\ session_id' = Get(session_data', "id", None)
                /\ PollEnter(session_id', DefaultPollInterval,
                             DefaultTimeoutMinutes)
                /\ pc' = "poll_check"
                /\ UNCHANGED result
    /\ UNCHANGED <<repairVars, entry, final_session_data, media_items, downloaded_items,
                   idx, exception, listVars, serviceVars, statusHist,
                   listHist, dlHist, deleteHist>>

\* a listing made for the session the poll's descriptor names
list_session_arg_polled(sid, polled) == Get(polled, "id", None)

\* the argument of `self.get_selected_media_items(session_id)`
list_session_arg(sid, polled) == sid

\* Step 3: the poll has returned
WfAfterPoll ==
    /\ entry = "workflow" /\ pc = "poll_returned"
    /\ final_session_data' = poll_result
    /\ IF PollFailed(final_session_data')
       THEN /\ delete_reqs' = delete_session(delete_reqs, session_id)
            /\ \E deleted \in BOOLEAN :
                 delete_results' = Append(delete_results, deleted)
            /\ result' = <<>>
            /\ pc' = "done"
            /\ UNCHANGED listVars
       ELSE /\ ListEnter(list_session_arg(session_id, final_session_data'))
            /\ pc' = "list_page"
            /\ UNCHANGED <<deleteHist, result>>
    \* the frame of the poll is gone, and so are its clock and its service
    /\ poll_session_id' = None /\ poll_interval' = 0 /\ timeout_seconds' = 0
    /\ elapsed' = 0 /\ poll_session_data' = EmptyDict
    /\ poll_result' = EmptyDict
    /\ event_at' = 0 /\ event_kind' = "complete" /\ call_latency' = 0
    /\ status_calls' = 0 /\ last_response' = EmptyDict
    /\ UNCHANGED <<repairVars, entry, session_data, session_id, media_items,
                   downloaded_items, idx, exception, status_sids, listHist,
                   dlHist>>

\* ------------------------------------------------------ download_media_item
\* `if not media_items` after the listing
ListEmpty(items) == items = <<>>

\* a download whose result is the result of the metadata repair
download_media_item_res(item, http_ok, io_ok, repaired) ==
    IF "mediaFile" \notin DOMAIN item
    THEN [raised |-> TRUE, requested |-> FALSE, written |-> FALSE,
          failure |-> "no_media_file", value |-> FALSE]
    ELSE IF Falsy(Get(item["mediaFile"], "baseUrl", None))
    THEN [raised |-> FALSE, requested |-> FALSE, written |-> FALSE,
          failure |-> "no_base_url", value |-> FALSE]
    ELSE IF ~http_ok
    THEN [raised |-> FALSE, requested |-> TRUE, written |-> FALSE,
          failure |-> "http", value |-> FALSE]
    ELSE IF ~io_ok
    THEN [raised |-> FALSE, requested |-> TRUE, written |-> FALSE,
          failure |-> "io", value |-> FALSE]
    ELSE [raised |-> FALSE, requested |-> TRUE, written |-> TRUE,
          failure |-> "none", value |-> repaired]

\* the download of one item: whether the method raises out of its own
\* handler (the handler reads media_item['mediaFile'] again), whether it sent
\* the GET request, whether it wrote the bytes to the file, and the value it
\* returns otherwise; `repaired` is what _update_metadata returned
download_media_item(item, http_ok, io_ok, repaired) ==
    IF "mediaFile" \notin DOMAIN item
    THEN [raised |-> TRUE, requested |-> FALSE, written |-> FALSE,
          failure |-> "no_media_file", value |-> FALSE]
    ELSE IF Falsy(Get(item["mediaFile"], "baseUrl", None))
    THEN [raised |-> FALSE, requested |-> FALSE, written |-> FALSE,
          failure |-> "no_base_url", value |-> FALSE]
    ELSE IF ~http_ok
    THEN [raised |-> FALSE, requested |-> TRUE, written |-> FALSE,
          failure |-> "http", value |-> FALSE]
    ELSE IF ~io_ok
    THEN [raised |-> FALSE, requested |-> TRUE, written |-> FALSE,
          failure |-> "io", value |-> FALSE]
    ELSE [raised |-> FALSE, requested |-> TRUE, written |-> TRUE,
          failure |-> "none", value |-> TRUE]

\* ---- the files download_media_item writes
\* a path is the record of whether it is absolute and of its components
download_dir == [abs |-> FALSE, parts |-> <<"output">>]

\* Path(filename): the components a declared filename spells
PathOf(filename) ==
    CASE filename = "../evil.jpg" ->
            [abs |-> FALSE, parts |-> <<"..", "evil.jpg">>]
      [] filename = "/tmp/evil.jpg" ->
            [abs |-> TRUE, parts |-> <<"tmp", "evil.jpg">>]
      [] OTHER -> [abs |-> FALSE, parts |-> <<filename>>]

\* `dir / name` of pathlib: an absolute right operand replaces the left
JoinPath(dir, name) ==
    IF name.abs THEN name
    ELSE [abs |-> dir.abs, parts |-> dir.parts \o name.parts]

RECURSIVE ResolveParts(_, _, _)
\* the components the operating system walks: ".." steps to the parent
ResolveParts(abs, done, rest) ==
    IF rest = <<>> THEN done
    ELSE IF Head(rest) # ".."
    THEN ResolveParts(abs, Append(done, Head(rest)), Tail(rest))
    ELSE IF done # <<>> /\ done[Len(done)] # ".."
    THEN ResolveParts(abs, SubSeq(done, 1, Len(done) - 1), Tail(rest))
    ELSE IF abs THEN ResolveParts(abs, done, Tail(rest))
    ELSE ResolveParts(abs, Append(done, ".."), Tail(rest))

\* the file open(path, 'wb') opens
Resolve(path) ==
    [abs |-> path.abs, parts |-> ResolveParts(path.abs, <<>>, path.parts)]

\* `filename = media_item['mediaFile'].get('filename', 'unknown_file')`
\* and `file_path = self.download_dir / filename`
file_path(item) ==
    JoinPath(download_dir,
             PathOf(Get(item["mediaFile"], "filename", "unknown_file")))

\* a write that leaves an existing file alone
write_file_keep(fs, path, content) ==
    IF path \in DOMAIN fs THEN fs ELSE DictSet(fs, path, content)

\* open(path, 'wb') and the writes of the chunks: the file is created or
\* truncated, then holds what was written
write_file(fs, path, content) == DictSet(fs, path, content)

\* what a call leaves in the file it opened: the bytes served for the item,
\* all of them or (when the stream broke) a part, repaired or not
FileContent(item, r, repaired) ==
    [bytes |-> item.id, complete |-> r.written,
     repaired |-> r.written /\ repaired]

\* a call that opens its file as soon as the request is sent
OpenedFile_early(r, partial) == r.requested

\* the call opened its file: it wrote it, or failed while writing it
OpenedFile(r, partial) == r.written \/ (r.failure = "io" /\ partial)

\* the file system after the call
FilesAfter(fs, item, r, partial, repaired) ==
    IF OpenedFile(r, partial)
    THEN write_file(fs, Resolve(file_path(item)),
                    FileContent(item, r, repaired))
    ELSE fs

\* the writes made so far, after the n-th call
WritesAfter(writes, n, item, r, partial, repaired) ==
    IF OpenedFile(r, partial)
    THEN Append(writes, [call |-> n, path |-> Resolve(file_path(item)),
                         content |-> FileContent(item, r, repaired)])
    ELSE writes

\* the log entry of one call
LogEntry(item, r, repaired) ==
    [item |-> item, written |-> r.written, repaired |-> r.written /\ repaired,
     failure |-> r.failure, raised |-> r.raised, value |-> r.value]

\* an empty listing that returns without deleting the session
WfAfterList_nodelete ==
    /\ entry = "workflow" /\ pc = "list_returned"
    /\ media_items' = list_result
    /\ IF media_items' = <<>>
       THEN /\ result' = <<>>
            /\ pc' = "done"
            /\ UNCHANGED <<downloaded_items, idx>>
       ELSE /\ downloaded_items' = <<>>
            /\ idx' = 1
            /\ pc' = "download"
            /\ UNCHANGED result
    /\ UNCHANGED <<repairVars, entry, session_data, session_id,
                   final_session_data, exception, pollVars, listVars,
                   serviceVars, statusHist, listHist, dlHist, deleteHist>>

\* Step 4: the listing has returned
WfAfterList ==
    /\ entry = "workflow" /\ pc = "list_returned"
    /\ media_items' = list_result
    /\ IF ListEmpty(media_items')
       THEN /\ delete_reqs' = delete_session(delete_reqs, session_id)
            /\ \E deleted \in BOOLEAN :
                 delete_results' = Append(delete_results, deleted)
            /\ result' = <<>>
            /\ pc' = "done"
            /\ UNCHANGED <<downloaded_items, idx>>
       ELSE /\ downloaded_items' = <<>>
            /\ idx' = 1
            /\ pc' = "download"
            /\ UNCHANGED <<deleteHist, result>>
    /\ UNCHANGED <<repairVars, entry, session_data, session_id, final_session_data,
                   exception, pollVars, listVars, serviceVars, statusHist,
                   listHist, dlHist>>

\* a loop that appends the item whatever the download returned
record_download_always(downloaded, item, ok) == Append(downloaded, item)

\* `if self.download_media_item(item): downloaded_items.append(item)`
record_download(downloaded, item, ok) ==
    IF ok THEN Append(downloaded, item) ELSE downloaded

\* Step 5: one iteration of the download loop
WfDownload ==
    /\ entry = "workflow" /\ pc = "download"
    /\ LET item == media_items[idx] IN
       IF "mediaFile" \notin DOMAIN item
       THEN \* the progress line reads item['mediaFile']: KeyError
            /\ exception' = "KeyError"
            /\ pc' = "raised"
            /\ UNCHANGED <<downloaded_items, idx, dlHist>>
       ELSE \E http_ok \in BOOLEAN, io_ok \in BOOLEAN, partial \in BOOLEAN,
               repaired \in BOOLEAN :
            LET r == download_media_item(item, http_ok, io_ok, repaired) IN
            /\ download_reqs' = IF r.requested
                                THEN Append(download_reqs, item)
                                ELSE download_reqs
            /\ download_log' = Append(download_log,
                                      LogEntry(item, r, repaired))
            /\ files' = FilesAfter(files, item, r, partial, repaired)
            /\ file_writes' = WritesAfter(file_writes, Len(download_log) + 1,
                                          item, r, partial, repaired)
            /\ IF r.raised
               THEN /\ exception' = "KeyError"
                    /\ pc' = "raised"
                    /\ UNCHANGED <<downloaded_items, idx>>
               ELSE /\ downloaded_items' =
                        record_download(downloaded_items, item, r.value)
                    /\ idx' = idx + 1
                    /\ pc' = IF idx' > Len(media_items) THEN "cleanup"
                             ELSE "download"
                    /\ UNCHANGED exception
    /\ UNCHANGED <<repairVars, entry, session_data, session_id,
                   final_session_data, media_items, result, pollVars,
                   listVars, serviceVars, statusHist, listHist, deleteHist>>

\* a clean-up that reports nothing when the delete request failed
cleanup_result_strict(downloaded, deleted) ==
    IF deleted THEN downloaded ELSE <<>>

\* `self.delete_session(session_id)` then `return downloaded_items`: the
\* value of delete_session is dropped
cleanup_result(downloaded, deleted) == downloaded

\* a clean-up that deletes the session while items are still to download
WfCleanup_early ==
    /\ entry = "workflow" /\ pc = "download" /\ delete_reqs = <<>>
    /\ delete_reqs' = delete_session(delete_reqs, session_id)
    /\ delete_results' = Append(delete_results, TRUE)
    /\ UNCHANGED <<repairVars, entry, pc, wfVars, pollVars, listVars,
                   serviceVars, statusHist, listHist, dlHist>>

\* Step 6: delete the session and return the downloaded items
WfCleanup ==
    /\ entry = "workflow" /\ pc = "cleanup"
    /\ delete_reqs' = delete_session(delete_reqs, session_id)
    /\ \E deleted \in BOOLEAN :
         /\ delete_results' = Append(delete_results, deleted)
         /\ result' = cleanup_result(downloaded_items, deleted)
    /\ pc' = "done"
    /\ UNCHANGED <<repairVars, entry, session_data, session_id, final_session_data,
                   media_items, downloaded_items, idx, exception, pollVars,
                   listVars, serviceVars, statusHist, listHist,
                   dlHist>>

\* --------------------------------------------------------- specifications
Next ==
    \/ WfCreate
    \/ PollCheck
    \/ PollStatus
    \/ PollSleep
    \/ WfAfterPoll
    \/ ListPage
    \/ WfAfterList
    \/ WfDownload
    \/ WfCleanup

Spec == Init /\ [][Next]_vars

\* the workflow from Step 5 on: the session "s1" was created and completed
\* and its listing came in one page
InitLoop ==
    /\ entry = "workflow" /\ pc = "download"
    /\ session_data = [id |-> "s1", pickerUri |-> PickerUri]
    /\ session_id = "s1"
    /\ final_session_data = [id |-> "s1", mediaItemsSet |-> TRUE]
    /\ media_items \in SeqsUpTo(LoopItems, MaxLoopItems) \ {<<>>}
    /\ downloaded_items = <<>> /\ idx = 1 /\ result = <<>>
    /\ exception = None
    /\ PollIdle /\ RepairIdle
    /\ event_at = 0 /\ event_kind = "complete" /\ call_latency = 0
    /\ list_session_id = "s1" /\ all_media_items = media_items
    /\ page_token = None /\ list_result = media_items
    /\ status_calls = 0 /\ status_sids = {"s1"} /\ last_response = EmptyDict
    /\ list_reqs = <<request_params("s1", None)>>
    /\ pages = <<[mediaItems |-> media_items]>> /\ list_failed = FALSE
    /\ download_reqs = <<>> /\ delete_reqs = <<>>
    /\ download_log = <<>>
    /\ files = EmptyDict /\ file_writes = <<>> /\ delete_results = <<>>

NextLoop ==
    \/ WfDownload
    \/ WfCleanup

SpecLoop == InitLoop /\ [][NextLoop]_vars

\* poll_session_until_complete called on its own
InitPoll ==
    /\ entry = "poll" /\ pc = "poll_check"
    /\ WfIdle /\ ListIdle /\ NoHistory /\ ServiceInit /\ RepairIdle
    /\ poll_session_id \in SessionIds
    /\ poll_interval \in PollIntervals
    /\ \E m \in 0..MaxTimeoutMinutes : timeout_seconds = m * 60
    /\ elapsed = 0 /\ poll_session_data = EmptyDict
    /\ poll_result = EmptyDict

NextPoll ==
    \/ PollCheck
    \/ PollStatus
    \/ PollSleep

SpecPoll == InitPoll /\ [][NextPoll]_vars

\* the same, with the method running on: every status request returns and
\* every wait ends
SpecPollFair == InitPoll /\ [][NextPoll]_vars /\ WF_vars(NextPoll)

\* get_selected_media_items called on its own
InitList ==
    /\ entry = "list" /\ pc = "list_page"
    /\ WfIdle /\ PollIdle /\ NoHistory /\ RepairIdle
    /\ event_at = 0 /\ event_kind = "complete" /\ call_latency = 0
    /\ list_session_id \in SessionIds
    /\ all_media_items = <<>> /\ page_token = None /\ list_result = <<>>

NextList == ListPage

SpecList == InitList /\ [][NextList]_vars

\* ------------------------------------------------------------ exif_helper
\* text is a sequence of code points, bytes a sequence of 0..255
RECURSIVE Utf8Encode(_)
\* str.encode('utf-8'), for code points below 65536
Utf8Encode(text) ==
    IF text = <<>> THEN <<>>
    ELSE LET cp == Head(text)
             b == IF cp < 128 THEN <<cp>>
                  ELSE IF cp < 2048
                  THEN <<192 + (cp \div 64), 128 + (cp % 64)>>
                  ELSE <<224 + (cp \div 4096), 128 + ((cp \div 64) % 64),
                         128 + (cp % 64)>>
         IN  b \o Utf8Encode(Tail(text))

\* COPYRIGHT_TEXT and ARTIST_TEXT
COPYRIGHT_TEXT ==
    <<169, 50, 48, 50, 53, 44, 32, 83, 101, 114, 103, 105, 121, 32, 90, 97,
      121, 116, 115, 101, 118, 46, 32, 65, 108, 108, 32, 114, 105, 103,
      104, 116, 115, 32, 114, 101, 115, 101, 114, 118, 101, 100, 46>>
ARTIST_TEXT ==
    <<83, 101, 114, 103, 105, 121, 32, 90, 97, 121, 116, 115, 101, 118, 32,
      40, 104, 116, 116, 112, 115, 58, 47, 47, 122, 97, 121, 97, 114, 116,
      115, 46, 99, 111, 109, 41>>

\* piexif tag numbers
Software == 305
Artist == 315
Copyright == 33432
DateTime == 306
DateTimeOriginal == 36867

\* the list without its last entry
problematic_fields_short ==
    {41729, 41730, 41985, 41986, 41987, 41988, 41989, 41990, 41991, 41992,
     41993, 41994, 41995}

\* problematic_fields of fix_exif_types
problematic_fields ==
    {41729, 41730, 41985, 41986, 41987, 41988, 41989, 41990, 41991, 41992,
     41993, 41994, 41995, 41996}


fix_exif_types(d) ==
    IF "Exif" \in DOMAIN d
    THEN DictSet(d, "Exif", DictDel(d["Exif"], problematic_fields))
    ELSE d

\* a clean-up that looks for the Software tag in the 0th IFD only
remove_software_0th(d) ==
    IF "0th" \in DOMAIN d /\ Software \in DOMAIN d["0th"]
    THEN DictSet(d, "0th", DictDel(d["0th"], {Software}))
    ELSE d

\* the two `del ...[piexif.ImageIFD.Software]`
remove_software(d) ==
    LET d0 == IF "0th" \in DOMAIN d /\ Software \in DOMAIN d["0th"]
              THEN DictSet(d, "0th", DictDel(d["0th"], {Software}))
              ELSE d
    IN  IF "Exif" \in DOMAIN d0 /\ Software \in DOMAIN d0["Exif"]
        THEN DictSet(d0, "Exif", DictDel(d0["Exif"], {Software}))
        ELSE d0

\* texts that are appended to the value the tag already holds
write_texts_append(d, copyright, artist) ==
    LET d0 == IF "0th" \notin DOMAIN d THEN DictSet(d, "0th", EmptyDict)
              ELSE d
        c == Get(d0["0th"], Copyright, <<>>) \o Utf8Encode(copyright)
        a == Get(d0["0th"], Artist, <<>>) \o Utf8Encode(artist)
    IN  DictSet(d0, "0th", DictSet(DictSet(d0["0th"], Copyright, c), Artist, a))

\* the Copyright and Artist assignments, after creating a missing 0th IFD
write_texts(d, copyright, artist) ==
    LET d0 == IF "0th" \notin DOMAIN d THEN DictSet(d, "0th", EmptyDict)
              ELSE d
    IN  DictSet(d0, "0th",
                DictSet(DictSet(d0["0th"], Copyright, Utf8Encode(copyright)),
                        Artist, Utf8Encode(artist)))

\* update_exif_metadata, from the dict piexif.load returned
update_exif_metadata(loaded, copyright, artist) ==
    write_texts(remove_software(fix_exif_types(loaded)), copyright, artist)

\* the containers piexif.load can find in a file: the 0th and Exif IFDs,
\* each absent or holding up to MaxTagsPerGroup of the tags below, with or
\* without a GPS IFD
OldValue == <<111, 108, 100>>
ModelTags == {Software, Copyright, 41729, 41996, 271}
TagDicts ==
    {[t \in S |-> OldValue] :
        S \in {T \in SUBSET ModelTags : Cardinality(T) <= MaxTagsPerGroup}}
GpsDict == [t \in {1} |-> <<78>>]
Containers ==
    LET base == UNION {[G -> TagDicts] : G \in SUBSET {"0th", "Exif"}}
    IN  base \cup {DictSet(c, "GPS", GpsDict) : c \in base}

\* text arguments: empty, ASCII, and with 2- and 3-byte code points
Texts == {<<>>, <<65, 66>>, <<169, 8364>>}

\* update_exif_metadata called on its own
UpdateExif ==
    /\ entry = "exif" /\ pc = "exif_call"
    /\ \/ \* piexif.load raises
          /\ exception' = "Exception"
          /\ pc' = "raised"
          /\ UNCHANGED exif_dict
       \/ /\ exif_dict' = update_exif_metadata(file_exif, copyright_text,
                                               artist_text)
          /\ pc' = "exif_returned"
          /\ UNCHANGED exception
    /\ UNCHANGED <<entry, session_data, session_id, final_session_data,
                   media_items, downloaded_items, idx, result, pollVars,
                   listVars, serviceVars, statusHist, listHist, dlHist,
                   deleteHist, file_exif, file_mtime, file_atime,
                   item_create_time, local_offset, copyright_text,
                   artist_text, creation_date, repair_runs, repair_ok,
                   exif_history>>

InitExif ==
    /\ entry = "exif" /\ pc = "exif_call"
    /\ WfIdle /\ PollIdle /\ ListIdle /\ NoHistory
    /\ event_at = 0 /\ event_kind = "complete" /\ call_latency = 0
    /\ file_exif \in Containers
    /\ copyright_text \in Texts /\ artist_text \in Texts
    /\ file_mtime = 0 /\ file_atime = 0
    /\ item_create_time = NoCreateTime /\ local_offset = 0
    /\ exif_dict = EmptyDict /\ creation_date = <<>>
    /\ repair_runs = 0 /\ repair_ok = FALSE /\ exif_history = <<>>

NextExif == UpdateExif

SpecExif == InitExif /\ [][NextExif]_vars

\* ---- timestamps --------------------------------------------------------
\* Time is counted in whole hours.  A createTime string is the record of its
\* parts: the wall-clock reading it spells and its zone suffix.
TzHours(tz) ==
    CASE tz = "+00:00" -> 0
      [] tz = "+02:00" -> 2
      [] tz = "-05:00" -> 0 - 5

\* datetime.fromisoformat(utc_string.replace('Z', '+00:00'))
fromisoformat(ct) ==
    [wall |-> ct.wall,
     utcoffset |-> TzHours(IF ct.tz = "Z" THEN "+00:00" ELSE ct.tz)]

\* utc_dt.replace(tzinfo=pytz.UTC): same wall-clock reading, offset zero
replace_tzinfo_utc(dt) == [dt EXCEPT !.utcoffset = 0]

\* dt.astimezone() on a machine whose zone is `offset` hours from UTC
astimezone(dt, offset) ==
    [wall |-> dt.wall - dt.utcoffset + offset, utcoffset |-> offset]

Digits2(n) == <<48 + (n \div 10), 48 + (n % 10)>>

\* strftime(DT_FORMAT), at hour resolution: day of month, space, hour
strftime(dt) == Digits2(dt.wall \div 24) \o <<32>> \o Digits2(dt.wall % 24)

\* datetime.strptime(s, DT_FORMAT): a naive wall-clock reading
strptime(s) ==
    ((s[1] - 48) * 10 + (s[2] - 48)) * 24 + (s[4] - 48) * 10 + (s[5] - 48)

\* naive_dt.timestamp(): the reading is taken as local time
timestamp(wall, offset) == wall - offset

_utc_to_local_dt(ct, offset) ==
    strftime(astimezone(replace_tzinfo_utc(fromisoformat(ct)), offset))

\* an assignment that replaces the whole group by the one tag
SetTag_replace(d, group, tag, value) ==
    DictSet(d, group, DictSet(EmptyDict, tag, value))

\* `exif_dict[group][tag] = value`
SetTag(d, group, tag, value) ==
    DictSet(d, group, DictSet(d[group], tag, value))

\* a repair that embeds the container before the date is written, and
\* leaves it in the file when a later step fails
_update_metadata_eager(file, mtime, atime, ct, offset, load_ok, dump_ok) ==
    LET date == IF ct.kind = "iso" THEN _utc_to_local_dt(ct, offset)
                ELSE <<>>
        d1 == update_exif_metadata(file, COPYRIGHT_TEXT, ARTIST_TEXT)
        d2 == IF date # <<>>
              THEN SetTag(SetTag(d1, "Exif", DateTimeOriginal,
                                 Utf8Encode(date)),
                          "0th", DateTime, Utf8Encode(date))
              ELSE d1
        failed(f, cd, d) == [ok |-> FALSE, file |-> f, mtime |-> mtime,
                             atime |-> atime, creation_date |-> cd,
                             exif_dict |-> d]
    IN  IF ct.kind = "bad" THEN failed(file, <<>>, EmptyDict)
        ELSE IF ~load_ok THEN failed(file, date, EmptyDict)
        ELSE IF date # <<>> /\ "Exif" \notin DOMAIN d1
        THEN failed(d1, date, d1)
        ELSE IF ~dump_ok THEN failed(d1, date, d2)
        ELSE [ok |-> TRUE, file |-> d2,
              mtime |-> IF date # <<>>
                        THEN timestamp(strptime(date), offset) ELSE mtime,
              atime |-> IF date # <<>>
                        THEN timestamp(strptime(date), offset) ELSE atime,
              creation_date |-> date, exif_dict |-> d2]

\* _update_metadata on a file holding container `file`; load_ok and dump_ok
\* say whether piexif.load and piexif.dump/insert go through
_update_metadata(file, mtime, atime, ct, offset, load_ok, dump_ok) ==
    LET date == IF ct.kind = "iso" THEN _utc_to_local_dt(ct, offset)
                ELSE <<>>
        d1 == update_exif_metadata(file, COPYRIGHT_TEXT, ARTIST_TEXT)
        d2 == IF date # <<>>
              THEN SetTag(SetTag(d1, "Exif", DateTimeOriginal,
                                 Utf8Encode(date)),
                          "0th", DateTime, Utf8Encode(date))
              ELSE d1
        failed(cd, d) == [ok |-> FALSE, file |-> file, mtime |-> mtime,
                          atime |-> atime, creation_date |-> cd,
                          exif_dict |-> d]
    IN  IF ct.kind = "bad" THEN failed(<<>>, EmptyDict)
        ELSE IF ~load_ok THEN failed(date, EmptyDict)
        ELSE IF date # <<>> /\ "Exif" \notin DOMAIN d1 THEN failed(date, d1)
        ELSE IF ~dump_ok THEN failed(date, d2)
        ELSE [ok |-> TRUE, file |-> d2,
              mtime |-> IF date # <<>>
                        THEN timestamp(strptime(date), offset) ELSE mtime,
              atime |-> IF date # <<>>
                        THEN timestamp(strptime(date), offset) ELSE atime,
              creation_date |-> date, exif_dict |-> d2]

\* createTime values of a media item
Walls == {36, 47}
Zones == {"Z", "+00:00", "+02:00", "-05:00"}
CreateTimes ==
    {NoCreateTime,
     [kind |-> "empty", wall |-> 0, tz |-> "Z"],
     [kind |-> "bad", wall |-> 0, tz |-> "Z"]}
    \cup [kind : {"iso"}, wall : Walls, tz : Zones]
LocalOffsets == {0 - 4, 5}
\* the instant the download left on the file
DownloadInstants == {0}
\* the containers of the files that are repaired: a GPS IFD comes with 0th
\* and Exif IFDs that hold the same tags
RepairContainers ==
    {c \in Containers :
        "GPS" \in DOMAIN c
            => /\ DOMAIN c = {"0th", "Exif", "GPS"}
               /\ DOMAIN c["0th"] = DOMAIN c["Exif"]}

\* _update_metadata applied to the file, up to MaxRepairs times
UpdateMetadata ==
    /\ entry = "repair" /\ repair_runs < MaxRepairs
    /\ \E load_ok \in BOOLEAN, dump_ok \in BOOLEAN :
         LET r == _update_metadata(file_exif, file_mtime, file_atime,
                                   item_create_time, local_offset,
                                   load_ok, dump_ok)
         IN  /\ file_exif' = r.file
             /\ file_mtime' = r.mtime
             /\ file_atime' = r.atime
             /\ creation_date' = r.creation_date
             /\ exif_dict' = r.exif_dict
             /\ repair_ok' = r.ok
             /\ exif_history' = IF r.ok THEN Append(exif_history, r.file)
                                ELSE exif_history
    /\ repair_runs' = repair_runs + 1
    /\ pc' = "repair_returned"
    /\ UNCHANGED <<entry, wfVars, pollVars, listVars, serviceVars,
                   statusHist, listHist, dlHist, deleteHist,
                   item_create_time, local_offset, copyright_text,
                   artist_text>>

InitRepair ==
    /\ entry = "repair" /\ pc = "repair_call"
    /\ WfIdle /\ PollIdle /\ ListIdle /\ NoHistory
    /\ event_at = 0 /\ event_kind = "complete" /\ call_latency = 0
    /\ file_exif \in RepairContainers
    /\ file_mtime \in DownloadInstants /\ file_atime = file_mtime
    /\ item_create_time \in CreateTimes
    /\ local_offset \in LocalOffsets
    /\ copyright_text = <<>> /\ artist_text = <<>>
    /\ exif_dict = EmptyDict /\ creation_date = <<>>
    /\ repair_runs = 0 /\ repair_ok = FALSE /\ exif_history = <<>>

NextRepair == UpdateMetadata

SpecRepair == InitRepair /\ [][NextRepair]_vars

\* download_media_item called on its own, up to MaxCalls times
DownloadCall ==
    /\ entry = "download" /\ pc = "download_call"
    /\ Len(download_log) < MaxCalls
    /\ \E item \in DownloadItems, http_ok \in BOOLEAN, io_ok \in BOOLEAN,
          partial \in BOOLEAN, repaired \in BOOLEAN :
        LET r == download_media_item(item, http_ok, io_ok, repaired) IN
        /\ download_reqs' = IF r.requested
                            THEN Append(download_reqs, item)
                            ELSE download_reqs
        /\ download_log' = Append(download_log, LogEntry(item, r, repaired))
        /\ files' = FilesAfter(files, item, r, partial, repaired)
        /\ file_writes' = WritesAfter(file_writes, Len(download_log) + 1,
                                      item, r, partial, repaired)
        /\ IF r.raised
           THEN exception' = "KeyError" /\ pc' = "raised"
           ELSE UNCHANGED <<exception, pc>>
    /\ UNCHANGED <<repairVars, entry, session_data, session_id,
                   final_session_data, media_items, downloaded_items, idx,
                   result, pollVars, listVars, serviceVars, statusHist,
                   listHist, deleteHist>>

InitDownload ==
    /\ entry = "download" /\ pc = "download_call"
    /\ WfIdle /\ PollIdle /\ ListIdle /\ NoHistory /\ RepairIdle
    /\ event_at = 0 /\ event_kind = "complete" /\ call_latency = 0

NextDownload == DownloadCall

SpecDownload == InitDownload /\ [][NextDownload]_vars

\* ------------------------------------------------------------- properties
WorkflowEnded == entry = "workflow" /\ pc \in {"done", "raised"}
Polling == pc \in {"poll_check", "poll_status", "poll_sleep"}

\* C1: once create_picking_session has returned a session, the workflow
\* ends, on every exit path, with exactly one delete_session call made.
C1_DeleteExactlyOnce ==
    /\ Len(delete_reqs) <= 1
    /\ (WorkflowEnded /\ ~IsEmptyDict(session_data)) => Len(delete_reqs) = 1

\* C2: when create_picking_session returns {}, the workflow returns [] and
\* has made no status, list, download or delete request.
C2_CreateFailureNoRequests ==
    (entry = "workflow" /\ pc # "create" /\ IsEmptyDict(session_data))
        => /\ pc = "done"
           /\ result = <<>>
           /\ status_calls = 0 /\ status_sids = {}
           /\ list_reqs = <<>> /\ download_reqs = <<>> /\ delete_reqs = <<>>

C2_Witness ==
    /\ entry = "workflow" /\ pc = "done"
    /\ IsEmptyDict(session_data) /\ result = <<>>

\* C3: the workflow polls only a session whose creation answer carried an
\* identifier.
C3_PollOnlyWithId ==
    (entry = "workflow" /\ (Polling \/ status_sids # {}))
        => "id" \in DOMAIN session_data

\* C4 (as stated): if the k-th status answer is the first complete one and
\* the timeout is greater than k poll intervals, the poll returns that
\* answer after exactly k status calls.
C4_CompleteAtK_Original ==
    (/\ entry = "poll" /\ pc = "poll_returned"
     /\ event_at >= 1 /\ event_kind = "complete"
     /\ timeout_seconds > event_at * poll_interval)
        => /\ status_calls = event_at
           /\ poll_result = last_response
           /\ SelectionComplete(poll_result)

\* C4 (amended): the same, provided the k-1 waits and the k-1 earlier status
\* calls together take no longer than the timeout.
C4_CompleteAtK ==
    (/\ entry = "poll" /\ pc = "poll_returned"
     /\ event_at >= 1 /\ event_kind = "complete"
     /\ timeout_seconds > event_at * poll_interval
     /\ (event_at - 1) * (poll_interval + call_latency) <= timeout_seconds)
        => /\ status_calls = event_at
           /\ poll_result = last_response
           /\ SelectionComplete(poll_result)

C4_Witness ==
    /\ entry = "poll" /\ pc = "poll_returned"
    /\ event_at = 4 /\ event_kind = "complete" /\ call_latency > 0
    /\ timeout_seconds > event_at * poll_interval
    /\ (event_at - 1) * (poll_interval + call_latency) = timeout_seconds
    /\ status_calls = 4 /\ SelectionComplete(poll_result)

\* C5: a poll that only ever received incomplete answers returns {}; the
\* poll never returns a descriptor whose completion flag is not true.
C5_TimeoutReturnsSentinel ==
    (entry = "poll" /\ pc = "poll_returned")
        => /\ IsEmptyDict(poll_result) \/ SelectionComplete(poll_result)
           /\ ~SelectionComplete(last_response) => IsEmptyDict(poll_result)

C5_Witness ==
    /\ entry = "poll" /\ pc = "poll_returned"
    /\ event_at = 0 /\ status_calls >= 2
    /\ ~IsEmptyDict(last_response) /\ ~SelectionComplete(last_response)
    /\ elapsed > timeout_seconds
    /\ IsEmptyDict(poll_result)

\* C6: at the first status call that returns {}, the poll returns {} at
\* once: no further status call, no wait, whatever time is left.
C6_StatusFailureStopsPoll ==
    (entry = "poll" /\ event_kind = "failed" /\ status_calls >= event_at)
        => /\ status_calls = event_at
           /\ pc = "poll_returned"
           /\ IsEmptyDict(poll_result)

C6_Witness ==
    /\ entry = "poll" /\ pc = "poll_returned"
    /\ event_kind = "failed" /\ event_at = 3 /\ status_calls = 3
    /\ elapsed < timeout_seconds
    /\ IsEmptyDict(last_response) /\ IsEmptyDict(poll_result)

RECURSIVE FlattenPages(_)
\* the items of a sequence of list answers, in page order
FlattenPages(ps) ==
    IF ps = <<>> THEN <<>>
    ELSE Get(Head(ps), "mediaItems", <<>>) \o FlattenPages(Tail(ps))

RECURSIVE SumPageSizes(_)
SumPageSizes(ps) ==
    IF ps = <<>> THEN 0
    ELSE Len(Get(Head(ps), "mediaItems", <<>>)) + SumPageSizes(Tail(ps))

\* C7: when no page request failed, the listing returns the items of all
\* pages received, in page order and in-page order.
C7_ListIsConcatenation ==
    (entry = "list" /\ pc = "list_returned" /\ ~list_failed)
        => /\ list_result = FlattenPages(pages)
           /\ Len(list_result) = SumPageSizes(pages)
           /\ Falsy(Get(pages[Len(pages)], "nextPageToken", None))

C7_Witness ==
    /\ entry = "list" /\ pc = "list_returned" /\ ~list_failed
    /\ Len(pages) = 3 /\ Len(list_result) = 5
    /\ list_result[1] # list_result[2]

\* C8: when a page request failed, the listing returns the empty sequence,
\* whatever the earlier pages held.
C8_FailureDiscardsPages ==
    (entry = "list" /\ list_failed)
        => pc = "list_returned" /\ list_result = <<>>

C8_Witness ==
    /\ entry = "list" /\ list_failed /\ pc = "list_returned"
    /\ Len(pages) = 2 /\ all_media_items # <<>>

\* C9: the first list request carries no continuation token, each later
\* one the token of the answer just before it; all carry the session
\* identifier of the call and page size 100.
C9_TokenPassedVerbatim ==
    entry = "list" =>
        \A j \in 1..Len(list_reqs) :
            /\ list_reqs[j].sessionId = list_session_id
            /\ list_reqs[j].pageSize = 100
            /\ j = 1 => "pageToken" \notin DOMAIN list_reqs[j]
            /\ j > 1 => /\ "pageToken" \in DOMAIN list_reqs[j]
                        /\ list_reqs[j].pageToken = pages[j - 1].nextPageToken

C9_Witness ==
    /\ entry = "list" /\ Len(list_reqs) = 3
    /\ list_reqs[2].pageToken = "t1" /\ list_reqs[3].pageToken = "t2"

\* C10: the workflow lists (and downloads) only after the poll returned a
\* descriptor whose completion flag is true; after a poll that timed out or
\* failed it has deleted the session, lists and downloads nothing and
\* returns [].
C10_ListOnlyAfterCompletion ==
    entry = "workflow" =>
        /\ (pc \in {"list_page", "list_returned", "download", "cleanup"}
              \/ list_reqs # <<>> \/ download_reqs # <<>>)
            => SelectionComplete(final_session_data)
        /\ (pc \in {"done", "raised"} /\ ~IsEmptyDict(session_data)
              /\ IsEmptyDict(final_session_data))
            => /\ list_reqs = <<>> /\ download_reqs = <<>>
               /\ delete_reqs = <<session_id>>
               /\ pc = "done" /\ result = <<>>

C10_Witness ==
    /\ entry = "workflow" /\ pc = "done"
    /\ ~IsEmptyDict(session_data) /\ IsEmptyDict(final_session_data)
    /\ status_sids # {} /\ delete_reqs = <<session_id>>

\* the items download_media_item was called with, in call order
AttemptedItems == [i \in 1..Len(download_log) |-> download_log[i].item]

\* the items of the calls that returned true, in call order
ItemsReturnedTrue ==
    LET ok == SelectSeq(download_log, LAMBDA e : e.value)
    IN  [i \in 1..Len(ok) |-> ok[i].item]

\* the answers of the listing held no item, or a page request failed
ListingCameEmpty == list_failed \/ FlattenPages(pages) = <<>>

\* C11: the workflow downloads only from a non-empty listing; after an
\* empty selection or a failed pagination it has made no download, has
\* deleted the session and returns [].
C11_DownloadOnlyIfItems ==
    entry = "workflow" =>
        /\ (download_reqs # <<>> \/ download_log # <<>>)
            => (media_items # <<>> /\ ~ListingCameEmpty)
        /\ (WorkflowEnded /\ SelectionComplete(final_session_data)
              /\ ListingCameEmpty)
            => /\ download_reqs = <<>> /\ download_log = <<>>
               /\ delete_reqs = <<session_id>>
               /\ pc = "done" /\ result = <<>>

C11_Witness ==
    /\ entry = "workflow" /\ pc = "done"
    /\ SelectionComplete(final_session_data)
    /\ list_failed /\ all_media_items # <<>> /\ media_items = <<>>
    /\ download_log = <<>> /\ delete_reqs = <<session_id>>

\* C12: every retrieved item is attempted exactly once, in listing order,
\* before the session is deleted or the workflow ends, whatever the earlier
\* items did.
C12_EveryItemAttemptedOnce ==
    entry = "workflow" =>
        /\ Len(AttemptedItems) <= Len(media_items)
        /\ \A i \in 1..Len(AttemptedItems) : AttemptedItems[i] = media_items[i]
        /\ ((WorkflowEnded \/ pc = "cleanup" \/ delete_reqs # <<>>)
              /\ media_items # <<>>)
            => AttemptedItems = media_items

\* C13: download_media_item returns false and does not raise, whatever makes
\* the download fail.
C13_DownloadNeverRaises ==
    entry = "download" =>
        /\ pc # "raised"
        /\ \A i \in 1..Len(download_log) :
             download_log[i].failure # "none"
                => ~download_log[i].raised /\ ~download_log[i].value

\* C14: the list the workflow returns is the subsequence of the retrieved
\* items, in listing order, whose download returned true.
C14_ResultIsDownloadedSubsequence ==
    (entry = "workflow" /\ pc = "done")
        => /\ result = ItemsReturnedTrue
           /\ media_items # <<>> => AttemptedItems = media_items
           /\ Len(result) <= Len(media_items)

C14_Witness ==
    /\ entry = "workflow" /\ pc = "done"
    /\ Len(media_items) = 2 /\ Len(result) = 1
    /\ ~download_log[1].value /\ download_log[2].value
    /\ result[1] = media_items[2]

\* C15: a call that fetched and wrote the bytes returns true and its item is
\* counted as downloaded, whatever _update_metadata returned.
C15_RepairFailureKeepsDownload ==
    entry = "workflow" =>
        /\ \A i \in 1..Len(download_log) :
             download_log[i].written => download_log[i].value
        /\ LET w == SelectSeq(download_log, LAMBDA e : e.written)
           IN  downloaded_items = [i \in 1..Len(w) |-> w[i].item]

C15_Witness ==
    /\ entry = "workflow" /\ pc = "done"
    /\ \E i \in 1..Len(download_log) :
         /\ download_log[i].written /\ ~download_log[i].repaired
         /\ download_log[i].value
    /\ Len(result) = 1

RECURSIVE Utf8Decode(_)
\* the text a UTF-8 byte sequence stands for
Utf8Decode(bytes) ==
    IF bytes = <<>> THEN <<>>
    ELSE LET b == Head(bytes) IN
         IF b < 128 THEN <<b>> \o Utf8Decode(Tail(bytes))
         ELSE IF b < 224
         THEN <<(b - 192) * 64 + (bytes[2] - 128)>>
                  \o Utf8Decode(SubSeq(bytes, 3, Len(bytes)))
         ELSE <<(b - 224) * 4096 + (bytes[2] - 128) * 64 + (bytes[3] - 128)>>
                  \o Utf8Decode(SubSeq(bytes, 4, Len(bytes)))

\* the tag identifiers the claim lists
ClaimedProblematicTags == {41729, 41730} \cup (41985..41996)

C17_SoftwareGoneTextsWritten ==
    (entry = "exif" /\ pc = "exif_returned")
        => /\ "0th" \in DOMAIN exif_dict
           /\ Software \notin DOMAIN exif_dict["0th"]
           /\ "Exif" \in DOMAIN exif_dict
                => Software \notin DOMAIN exif_dict["Exif"]
           /\ Copyright \in DOMAIN exif_dict["0th"]
           /\ Artist \in DOMAIN exif_dict["0th"]
           /\ Utf8Decode(exif_dict["0th"][Copyright]) = copyright_text
           /\ Utf8Decode(exif_dict["0th"][Artist]) = artist_text
           /\ \A i \in 1..Len(exif_dict["0th"][Copyright]) :
                exif_dict["0th"][Copyright][i] \in 0..255

C17_Witness ==
    /\ entry = "exif" /\ pc = "exif_returned"
    /\ "0th" \in DOMAIN file_exif /\ "Exif" \in DOMAIN file_exif
    /\ DOMAIN file_exif["0th"] = {Software, Copyright}
    /\ Software \in DOMAIN file_exif["Exif"]
    /\ copyright_text = <<169, 8364>>
    /\ exif_dict["0th"][Copyright] # file_exif["0th"][Copyright]

\* the instant a createTime names, and its wall-clock reading in the zone
\* `offset` hours from UTC
InstantOf(ct) == ct.wall - TzHours(IF ct.tz = "Z" THEN "+00:00" ELSE ct.tz)
LocalTimeString(ct, offset) ==
    strftime([wall |-> InstantOf(ct) + offset, utcoffset |-> offset])

\* C18: after a repair of an item with an ISO-8601 createTime, the Exif
\* DateTimeOriginal and the 0th DateTime tags both hold the local wall-clock
\* time of the instant the createTime names.
C18_LocalTimeOfSameInstant ==
    (entry = "repair" /\ repair_ok /\ item_create_time.kind = "iso")
        => /\ file_exif["Exif"][DateTimeOriginal]
                = Utf8Encode(LocalTimeString(item_create_time, local_offset))
           /\ file_exif["0th"][DateTime]
                = Utf8Encode(LocalTimeString(item_create_time, local_offset))

\* C19: after a successful repair the file's modification and access times
\* are the instant of the createTime when the item has one; when it has
\* none they are as the download left them and no date/time is written.
C19_FileTimesAreCaptureInstant ==
    (entry = "repair" /\ repair_ok)
        => IF item_create_time.kind = "iso"
           THEN /\ file_mtime = InstantOf(item_create_time)
                /\ file_atime = InstantOf(item_create_time)
           ELSE /\ file_mtime \in DownloadInstants
                /\ file_atime \in DownloadInstants
                /\ creation_date = <<>>

\* C20: repairing an already repaired container again, with the same texts
\* and the same createTime, gives a container equal to the repaired one.
C20_RepairIdempotent ==
    (entry = "repair" /\ Len(exif_history) >= 2)
        => \A i \in 2..Len(exif_history) : exif_history[i] = exif_history[1]

C20_Witness ==
    /\ entry = "repair" /\ Len(exif_history) = 2
    /\ item_create_time.kind = "iso"
    /\ DateTimeOriginal \in DOMAIN exif_history[2]["Exif"]
    /\ exif_history[2]["0th"][Copyright] = Utf8Encode(COPYRIGHT_TEXT)

\* ---- files
\* path p lies inside directory dir
InsideDir(dir, p) ==
    /\ p.abs = dir.abs
    /\ Len(p.parts) > Len(dir.parts)
    /\ SubSeq(p.parts, 1, Len(dir.parts)) = dir.parts
    /\ \A i \in 1..Len(p.parts) : p.parts[i] # ".."

\* the last write made to path p
LastWriteTo(p) ==
    LET at == {i \in 1..Len(file_writes) : file_writes[i].path = p}
    IN  file_writes[CHOOSE i \in at : \A j \in at : j <= i]

\* C21: every file download_media_item writes lies inside the download
\* directory, whatever filename the item declares.
C21_WritesStayInDownloadDir ==
    entry = "download" =>
        \A i \in 1..Len(file_writes) :
            InsideDir(Resolve(download_dir), file_writes[i].path)

\* C22: downloads to one filename overwrite each other: every file holds
\* what the last call that opened it wrote, and every item whose download
\* succeeded is counted, also those whose file was overwritten later.
C22_LastWriterWinsAllCounted ==
    entry = "workflow" =>
        /\ DOMAIN files = {file_writes[i].path : i \in 1..Len(file_writes)}
        /\ \A p \in DOMAIN files : files[p] = LastWriteTo(p).content
        /\ \A i \in 1..Len(file_writes) :
             LET e == download_log[file_writes[i].call]
             IN  /\ file_writes[i].path = Resolve(file_path(e.item))
                 /\ file_writes[i].content.bytes = e.item.id
                 /\ file_writes[i].content.complete = e.value
        /\ LET done == SelectSeq(file_writes, LAMBDA w : w.content.complete)
           IN  /\ Len(downloaded_items) = Len(done)
               /\ \A i \in 1..Len(done) :
                    downloaded_items[i].id = done[i].content.bytes
        /\ pc = "done" => result = downloaded_items

C22_Witness ==
    /\ entry = "workflow" /\ pc = "done"
    /\ result = <<ItemA, ItemD>>
    /\ DOMAIN files = {[abs |-> FALSE, parts |-> <<"output", "a.jpg">>]}
    /\ \A p \in DOMAIN files : files[p].bytes = "d" /\ files[p].complete

\* C23: a delete_session call is made at most once, and whatever it
\* returned the workflow ends normally with the list of the items whose
\* download returned true.
C23_DeleteIsBestEffort ==
    (entry = "workflow" /\ delete_results # <<>>)
        => /\ Len(delete_results) = 1 /\ Len(delete_reqs) = 1
           /\ pc = "done" /\ exception = None
           /\ result = ItemsReturnedTrue

C23_Witness ==
    /\ entry = "workflow" /\ pc = "done"
    /\ delete_results = <<FALSE>>
    /\ result # <<>>

\* C24: every status, list and delete request of a workflow run names the
\* session identifier create_picking_session returned, also when a
\* descriptor received later carries another identifier.
C24_OneSessionId ==
    (entry = "workflow" /\ ~IsEmptyDict(session_data))
        => /\ session_id = Get(session_data, "id", None)
           /\ status_sids \subseteq {session_id}
           /\ \A i \in 1..Len(list_reqs) : list_reqs[i].sessionId = session_id
           /\ \A i \in 1..Len(delete_reqs) : delete_reqs[i] = session_id

C24_Witness ==
    /\ entry = "workflow" /\ pc = "done"
    /\ session_id = "s1" /\ Get(final_session_data, "id", None) = "s2"
    /\ status_sids = {"s1"}
    /\ list_reqs # <<>> /\ list_reqs[1].sessionId = "s1"
    /\ delete_reqs = <<"s1">>

\* C25: once delete_session has been called, the workflow makes no further
\* status, list, download or delete request.
C25_DeleteIsLastRequest ==
    [][delete_reqs # <<>>
         => /\ status_calls' = status_calls /\ status_sids' = status_sids
            /\ list_reqs' = list_reqs
            /\ download_reqs' = download_reqs
            /\ delete_reqs' = delete_reqs]_vars

C25_Witness ==
    /\ entry = "workflow" /\ pc = "done"
    /\ Len(delete_reqs) = 1
    /\ status_sids # {} /\ list_reqs # <<>> /\ download_reqs # <<>>

\* C26: the timeout is tested before every status call with a strict
\* comparison: no status call starts once the elapsed time exceeds the
\* timeout, one is still made when it equals the timeout, a completion it
\* reports is returned, and with instantaneous status calls there are at
\* most timeout/interval + 1 of them.
C26_StrictTimeoutBeforeEachCall ==
    entry = "poll" =>
        /\ pc = "poll_status" => elapsed <= timeout_seconds
        /\ (pc = "poll_returned" /\ SelectionComplete(last_response))
            => poll_result = last_response
        /\ (pc = "poll_returned" /\ call_latency = 0
              /\ elapsed <= timeout_seconds)
            => /\ status_calls >= 1
               /\ IsEmptyDict(last_response) \/ SelectionComplete(last_response)
        /\ call_latency = 0
            => status_calls <= (timeout_seconds \div poll_interval) + 1

C26_Witness ==
    /\ entry = "poll" /\ pc = "poll_returned"
    /\ call_latency = 0 /\ timeout_seconds > 0
    /\ elapsed = timeout_seconds
    /\ SelectionComplete(poll_result)
    /\ status_calls = (timeout_seconds \div poll_interval) + 1

\* C27: when every status request returns and every wait advances the
\* clock by the poll interval, poll_session_until_complete returns, with a
\* completed descriptor or with {}, whatever the service answers.
C27_PollTerminates ==
    <>(pc = "poll_returned"
         /\ (IsEmptyDict(poll_result) \/ SelectionComplete(poll_result)))

C27_Witness ==
    /\ entry = "poll" /\ pc = "poll_returned"
    /\ event_at = 0 /\ status_calls >= 2
    /\ IsEmptyDict(poll_result)

\* the continuation token of a list response
TokenOf(response) == Get(response, "nextPageToken", None)

\* C28: get_selected_media_items returns exactly when a request failed or
\* the last response carried no (or an empty) continuation token; every
\* response before the last carried one, repeated or not, and one request
\* was made per response: while tokens keep coming it keeps requesting.
C28_ListStopsOnlyWithoutToken ==
    entry = "list" =>
        /\ pc = "list_returned"
            <=> \/ list_failed
                \/ /\ pages # <<>>
                   /\ TokenOf(pages[Len(pages)]) \in {None, ""}
        /\ \A i \in 1..(Len(pages) - 1) : TokenOf(pages[i]) \notin {None, ""}
        /\ Len(list_reqs) = Len(pages) + (IF list_failed THEN 1 ELSE 0)

C28_Witness ==
    /\ entry = "list" /\ pc = "list_page"
    /\ Len(pages) = 2
    /\ TokenOf(pages[1]) = "t1" /\ TokenOf(pages[2]) = "t1"
    /\ Len(list_reqs) = 2

\* ---- the frame of the repair
\* the tags the repair strips or writes, by group
TouchedTag(g, t) ==
    \/ g = "Exif" /\ t \in ClaimedProblematicTags \cup {305, 36867}
    \/ g = "0th" /\ t \in {305, 33432, 315, 306}

\* the tags the repair writes
WrittenTag(g, t, dated) ==
    \/ g = "0th" /\ t \in {33432, 315}
    \/ dated /\ g = "0th" /\ t = 306
    \/ dated /\ g = "Exif" /\ t = 36867

\* container b differs from container a in touched tags only
SameButTouched(a, b, dated) ==
    /\ DOMAIN a \subseteq DOMAIN b
    /\ DOMAIN b \subseteq DOMAIN a \cup {"0th"}
    /\ \A g \in DOMAIN a : \A t \in DOMAIN a[g] :
         ~TouchedTag(g, t) => (t \in DOMAIN b[g] /\ b[g][t] = a[g][t])
    /\ \A g \in DOMAIN b : \A t \in DOMAIN b[g] :
         \/ WrittenTag(g, t, dated)
         \/ g \in DOMAIN a /\ t \in DOMAIN a[g]

\* C29: a successful repair keeps every tag of the container it found,
\* group and value, except the tags it strips or overwrites, and adds no
\* tag other than Copyright, Artist and the two date/time tags.
C29_RepairTouchesOnlyItsTags ==
    [][repair_ok'
         => SameButTouched(file_exif, file_exif',
                           item_create_time.kind = "iso")]_vars

C29_Witness ==
    /\ entry = "repair" /\ repair_ok /\ repair_runs = 1
    /\ item_create_time.kind = "iso"
    /\ "GPS" \in DOMAIN file_exif
    /\ 271 \in DOMAIN file_exif["Exif"] /\ 271 \in DOMAIN file_exif["0th"]
    /\ 36867 \in DOMAIN file_exif["Exif"]

\* C30: a repair that fails before the container is embedded again returns
\* false and leaves the file's container and its modification and access
\* times as they were.
C30_FailedRepairLeavesFile ==
    [][(repair_runs' # repair_runs /\ ~repair_ok')
         => UNCHANGED <<file_exif, file_mtime, file_atime>>]_vars

C30_Witness ==
    /\ entry = "repair" /\ repair_runs = 1 /\ ~repair_ok
    /\ item_create_time.kind = "iso"
    /\ "0th" \in DOMAIN file_exif /\ "Exif" \in DOMAIN file_exif
    /\ 305 \in DOMAIN file_exif["0th"]
    /\ 33432 \notin DOMAIN file_exif["0th"]
    /\ file_mtime \in DownloadInstants
    /\ exif_dict # EmptyDict

\* C31: a download that fails for want of a base URL or on the response
\* status creates and truncates no file: the files are as they were, also
\* the one an earlier item wrote under the same name.
C31_EarlyFailureLeavesFiles ==
    [][(/\ Len(download_log') = Len(download_log) + 1
        /\ download_log'[Len(download_log')].failure
               \in {"no_base_url", "http"})
         => files' = files /\ file_writes' = file_writes]_vars

C31_Witness ==
    /\ entry = "workflow" /\ pc = "done"
    /\ media_items = <<ItemA, ItemG>>
    /\ Len(download_log) = 2
    /\ download_log[1].written
    /\ download_log[2].failure = "no_base_url"
    /\ DOMAIN files = {[abs |-> FALSE, parts |-> <<"output", "a.jpg">>]}
    /\ \A p \in DOMAIN files : files[p].bytes = "a" /\ files[p].complete
    /\ result = <<ItemA>>

====
